---- MODULE Spec2Model ----
(***************************************************************************)
(* MeanEdge: intraday mean-reversion strategy simulator.                   *)
(*                                                                         *)
(* The model follows src/trading_engine.hpp: EMACalculator,                *)
(* TwoCandelPatternStrategy, RiskManager, Position and TradingEngine.      *)
(* TradingEngine::run() is split at the boundaries of its candle loop:     *)
(* RunStart is the prologue (strategy_.initialize), ProcessCandle is one   *)
(* whole iteration of the range-for, Finish is the code after the loop.    *)
(* The candle list is revealed one candle per iteration; the code reads    *)
(* candle i only in iteration i and candles.back() only after the loop.    *)
(*                                                                         *)
(* Numbers.  Prices and capital are doubles in the code.  The model draws  *)
(* them from integers, on which subtraction, multiplication by the share   *)
(* count, += and the truncating division of calculatePositionSize are      *)
(* exact in binary64.  The products with the fractional literals 0.02,     *)
(* 0.07 and 1.0 + 0.03 are not exact: they are computed as binary64        *)
(* computes them (Fl53, DoubleMul).  The EMA is kept as an exact fraction; *)
(* on the closes and lows of the input domain below no comparison          *)
(* `low > ema` of the binary64 EMA differs from that of the exact one.     *)
(* Candle::high is only ever printed and is left out.                      *)
(***************************************************************************)
EXTENDS Integers, Sequences, FiniteSets, TLC

\* ------------------------------------------------------------------ bounds
\* Longest candle list a run is given under Spec.
MaxCandles == 4
\* Longest candle list a run is given under SpecLong.
MaxLongCandles == 6
\* Longest candle list of a market data file under SpecMain.
MaxMainCandles == 3
\* Most updates an EMACalculator is given between resets under SpecEMA.
MaxUpdates == 3

\* ------------------------------------------------------------- input domain
\* "HH:MM" strings are sequences of characters.
T0915 == <<"0", "9", ":", "1", "5">>
T1445 == <<"1", "4", ":", "4", "5">>
T1450 == <<"1", "4", ":", "5", "0">>
T1500 == <<"1", "5", ":", "0", "0">>
NoTime == <<>>

\* A MarketData holds 5-minute candles: the list starts at one of FirstTimes
\* and each candle is stamped 5 minutes after the one before it.
FirstTimes == {T0915, T1445, T1450}
Opens == {100, 103}
Lows == {92, 101}
Closes == {40, 93, 100, 102}
PrevCloses == {100}
Capitals == {100000}

\* What the loop of run() is handed for the next candle, timestamp aside.
Bars == [open : Opens, low : Lows, close : Closes]

\* The bars of the longer lists of SpecLong: fewer closing prices.
LongCloses == {93, 100}
LongBars == [open : Opens, low : Lows, close : LongCloses]

\* The market data main() loads under SpecMain: the whole candle list, candles
\* with a close of 0 (a candle object without a "close" key), and capitals
\* that main() rejects.
MainCloses == {0, 100}
MainBars == [open : Opens, low : Lows, close : MainCloses]
MainCapitals == {0 - 1, 0, 100000}
Sessions == UNION {[1..n -> MainBars] : n \in 0..MaxMainCandles}

\* Periods and prices of the EMACalculator of SpecEMA.
EMAPeriods == {1, 2, 3, 5}
EMAPrices == {10, 11, 12}

DigitChar(d) ==
    CASE d = 0 -> "0" [] d = 1 -> "1" [] d = 2 -> "2" [] d = 3 -> "3" [] d = 4 -> "4"
      [] d = 5 -> "5" [] d = 6 -> "6" [] d = 7 -> "7" [] d = 8 -> "8" [] d = 9 -> "9"

\* The "HH:MM" string of m minutes since midnight.
TimeString(m) ==
    LET h == m \div 60
        r == m % 60
    IN <<DigitChar(h \div 10), DigitChar(h % 10), ":", DigitChar(r \div 10), DigitChar(r % 10)>>

\* ------------------------------------------------------- binary64 products
\* Significands of the literals of the source, most significant bit first
\* (53 bits), with the exponent of their last bit.
\*   0.02       = 0x1.47ae147ae147bp-6   = 0x147ae147ae147b * 2^-58
\*   0.07       = 0x1.1eb851eb851ecp-4   = 0x11eb851eb851ec * 2^-56
\*   1.0 + 0.03 = 0x1.07ae147ae147bp+0   = 0x107ae147ae147b * 2^-52
HexBits(h) ==
    CASE h = "0" -> <<0,0,0,0>> [] h = "1" -> <<0,0,0,1>> [] h = "2" -> <<0,0,1,0>>
      [] h = "3" -> <<0,0,1,1>> [] h = "4" -> <<0,1,0,0>> [] h = "5" -> <<0,1,0,1>>
      [] h = "6" -> <<0,1,1,0>> [] h = "7" -> <<0,1,1,1>> [] h = "8" -> <<1,0,0,0>>
      [] h = "9" -> <<1,0,0,1>> [] h = "a" -> <<1,0,1,0>> [] h = "b" -> <<1,0,1,1>>
      [] h = "c" -> <<1,1,0,0>> [] h = "d" -> <<1,1,0,1>> [] h = "e" -> <<1,1,1,0>>
      [] h = "f" -> <<1,1,1,1>>

RECURSIVE HexToBits(_)
HexToBits(hs) == IF hs = <<>> THEN <<>> ELSE HexBits(Head(hs)) \o HexToBits(Tail(hs))

Reverse(s) == [i \in 1..Len(s) |-> s[Len(s) + 1 - i]]

\* A literal: its bits least significant first, and e with value = bits * 2^-e.
Literal(hs, e) == [bits |-> Reverse(HexToBits(hs)), e |-> e]

STOP_LOSS_PCT == Literal(<<"1","4","7","a","e","1","4","7","a","e","1","4","7","b">>, 58)
TAKE_PROFIT_PCT == Literal(<<"1","1","e","b","8","5","1","e","b","8","5","1","e","c">>, 56)
ONE_PLUS_GAP_THRESHOLD == Literal(<<"1","0","7","a","e","1","4","7","a","e","1","4","7","b">>, 52)

\* bits (least significant first) times the natural number k, exactly.
RECURSIVE MulBits(_, _, _)
MulBits(bits, k, carry) ==
    IF bits = <<>>
    THEN IF carry = 0 THEN <<>> ELSE <<carry % 2>> \o MulBits(<<>>, k, carry \div 2)
    ELSE LET t == Head(bits) * k + carry
         IN <<t % 2>> \o MulBits(Tail(bits), k, t \div 2)

RECURSIVE StripHigh(_)
StripHigh(bits) ==
    IF bits = <<>> \/ bits[Len(bits)] = 1 THEN bits
    ELSE StripHigh(SubSeq(bits, 1, Len(bits) - 1))

RECURSIVE IncBits(_)
IncBits(bits) ==
    IF bits = <<>> THEN <<1>>
    ELSE IF Head(bits) = 0 THEN <<1>> \o Tail(bits)
    ELSE <<0>> \o IncBits(Tail(bits))

RECURSIVE BitsToInt(_)
BitsToInt(bits) == IF bits = <<>> THEN 0 ELSE Head(bits) + 2 * BitsToInt(Tail(bits))

\* Round-to-nearest-even of a bit string to 53 significant bits: the kept
\* bits and the number of low bits dropped.
Fl53(bits) ==
    LET p == StripHigh(bits)
        d == Len(p) - 53
    IN IF d <= 0 THEN [bits |-> p, dropped |-> 0]
       ELSE LET kept == SubSeq(p, d + 1, Len(p))
                half == p[d] = 1
                sticky == \E i \in 1..(d - 1) : p[i] = 1
                up == half /\ (sticky \/ kept[1] = 1)
            IN [bits |-> IF up THEN IncBits(kept) ELSE kept, dropped |-> d]

\* The double k * lit for a natural number k, as its integer part and the
\* bits of its fraction: whole + frac * 2^-Len(frac).
DoubleMul(k, lit) ==
    LET r == Fl53(MulBits(lit.bits, k, 0))
        f == lit.e - r.dropped
        n == Len(r.bits)
    IN IF f <= 0 THEN [whole |-> BitsToInt(r.bits), frac |-> <<>>]
       ELSE IF n <= f THEN [whole |-> 0, frac |-> r.bits \o [i \in 1..(f - n) |-> 0]]
       ELSE [whole |-> BitsToInt(SubSeq(r.bits, f + 1, n)), frac |-> SubSeq(r.bits, 1, f)]

FracZero(d) == \A i \in 1..Len(d.frac) : d.frac[i] = 0

\* Comparisons of an integer-valued double x with the double d >= 0.
GeDouble(x, d) == x > d.whole \/ (x = d.whole /\ FracZero(d))
LeNegDouble(x, d) == GeDouble(0 - x, d)

\* ------------------------------------------------------------ data structures
\* struct Candle (default-constructed: all zero, empty timestamp).
Candle(ts, o, l, c) == [timestamp |-> ts, open |-> o, low |-> l, close |-> c]
CandleDefault == Candle(NoTime, 0, 0, 0)

\* struct Trade.
Trade(ts, s, t, p, q, pnl_val) ==
    [timestamp |-> ts, side |-> s, type |-> t, price |-> p, quantity |-> q, pnl |-> pnl_val]

\* struct Position.
PositionDefault ==
    [is_open |-> FALSE, side |-> "BUY", entry_price |-> 0, quantity |-> 0,
     entry_timestamp |-> NoTime]

PositionOpen(s, price, qty, ts) ==
    [is_open |-> TRUE, side |-> s, entry_price |-> price, quantity |-> qty,
     entry_timestamp |-> ts]

\* Mutant of Position::close: is_open is left set.
PositionCloseStaysOpen(pos) ==
    [pos EXCEPT !.entry_price = 0, !.quantity = 0, !.entry_timestamp = NoTime]

PositionClose(pos) ==
    [pos EXCEPT !.is_open = FALSE, !.entry_price = 0, !.quantity = 0,
                !.entry_timestamp = NoTime]

\* Mutant of getUnrealizedPnL: the long formula for every side.
getUnrealizedPnLLongOnly(pos, current_price) ==
    IF ~pos.is_open THEN 0 ELSE (current_price - pos.entry_price) * pos.quantity

getUnrealizedPnL(pos, current_price) ==
    IF ~pos.is_open THEN 0
    ELSE IF pos.side = "BUY" THEN (current_price - pos.entry_price) * pos.quantity
    ELSE (pos.entry_price - current_price) * pos.quantity

\* ------------------------------------------------------------ EMACalculator
RECURSIVE GCD(_, _)
GCD(a, b) == IF b = 0 THEN a ELSE GCD(b, a % b)

\* A fraction num/den in lowest terms, den > 0, num >= 0.
Frac(num, den) == LET g == GCD(num, den) IN [num |-> num \div g, den |-> den \div g]

\* EMACalculator(period): multiplier_ = 2 / (period + 1), kept as period_.
EMACalculator(period) == [period_ |-> period, ema_ |-> Frac(0, 1), initialized_ |-> FALSE]

\* Mutant of update: no seed, the smoothing formula from the first price on.
EMAUpdateNoSeed(ema, price) ==
    [ema EXCEPT !.ema_ =
        Frac(2 * price * @.den + (ema.period_ - 1) * @.num, (ema.period_ + 1) * @.den),
                !.initialized_ = TRUE]

\* update: the seed, then price * multiplier_ + ema_ * (1 - multiplier_)
\*   = (2 * price + (period - 1) * ema_) / (period + 1).
EMAUpdate(ema, price) ==
    IF ~ema.initialized_
    THEN [ema EXCEPT !.ema_ = Frac(price, 1), !.initialized_ = TRUE]
    ELSE [ema EXCEPT !.ema_ =
             Frac(2 * price * @.den + (ema.period_ - 1) * @.num, (ema.period_ + 1) * @.den)]

EMAReset(ema) == [ema EXCEPT !.ema_ = Frac(0, 1), !.initialized_ = FALSE]

\* x > ema.getValue(), for an integer x.
GtEMA(x, ema) == x * ema.ema_.den > ema.ema_.num

\* ------------------------------------------------- TwoCandelPatternStrategy
StrategyNew ==
    [first_candle_ |-> CandleDefault, first_candle_valid_ |-> FALSE,
     previous_day_close_ |-> 0, ema3_ |-> EMACalculator(3), ema5_ |-> EMACalculator(5)]

StrategyInitialize(st, prev_close) ==
    [st EXCEPT !.previous_day_close_ = prev_close, !.first_candle_valid_ = FALSE,
               !.ema3_ = EMAReset(@), !.ema5_ = EMAReset(@)]

\* previous_day_close_ * (1.0 + GAP_THRESHOLD), tabulated over the previous-day
\* closes of the input domain.
GapLevel == [k \in PrevCloses |-> DoubleMul(k, ONE_PLUS_GAP_THRESHOLD)]

\* Mutant of the gap condition: > in place of >=.
GapConditionStrict(st, candle) ==
    ~GeDouble(candle.open, GapLevel[st.previous_day_close_])
        \/ candle.open > GapLevel[st.previous_day_close_].whole

\* candle.open >= previous_day_close_ * (1.0 + GAP_THRESHOLD)
GapCondition(st, candle) == GeDouble(candle.open, GapLevel[st.previous_day_close_])

\* Mutant of processCandle: the breakdown does not clear first_candle_valid_.
StrategyProcessCandleKeepsAnchor(st, candle) ==
    LET fed == [st EXCEPT !.ema3_ = EMAUpdate(@, candle.close),
                          !.ema5_ = EMAUpdate(@, candle.close)]
    IN IF ~fed.ema5_.initialized_ THEN [signal |-> FALSE, strategy |-> fed]
       ELSE IF ~fed.first_candle_valid_
       THEN [signal |-> FALSE,
             strategy |-> IF GapCondition(fed, candle) /\ GtEMA(candle.low, fed.ema5_)
                          THEN [fed EXCEPT !.first_candle_ = candle,
                                           !.first_candle_valid_ = TRUE]
                          ELSE fed]
       ELSE [signal |-> candle.low < fed.first_candle_.low, strategy |-> fed]

\* Mutant of processCandle: while first_candle_valid_, a candle that does not
\* break down but meets the gap and EMA conditions replaces first_candle_.
StrategyProcessCandleReplacesAnchor(st, candle) ==
    LET fed == [st EXCEPT !.ema3_ = EMAUpdate(@, candle.close),
                          !.ema5_ = EMAUpdate(@, candle.close)]
        qualifies == GapCondition(fed, candle) /\ GtEMA(candle.low, fed.ema5_)
    IN IF ~fed.ema5_.initialized_ THEN [signal |-> FALSE, strategy |-> fed]
       ELSE IF ~fed.first_candle_valid_
       THEN [signal |-> FALSE,
             strategy |-> IF qualifies
                          THEN [fed EXCEPT !.first_candle_ = candle,
                                           !.first_candle_valid_ = TRUE]
                          ELSE fed]
       ELSE IF candle.low < fed.first_candle_.low
       THEN [signal |-> TRUE, strategy |-> [fed EXCEPT !.first_candle_valid_ = FALSE]]
       ELSE [signal |-> FALSE,
             strategy |-> IF qualifies THEN [fed EXCEPT !.first_candle_ = candle] ELSE fed]

\* Mutant of processCandle: the readiness of ema5_ is tested before the update.
StrategyProcessCandleGateFirst(st, candle) ==
    LET fed == [st EXCEPT !.ema3_ = EMAUpdate(@, candle.close),
                          !.ema5_ = EMAUpdate(@, candle.close)]
    IN IF ~st.ema5_.initialized_ THEN [signal |-> FALSE, strategy |-> fed]
       ELSE IF ~fed.first_candle_valid_
       THEN [signal |-> FALSE,
             strategy |-> IF GapCondition(fed, candle) /\ GtEMA(candle.low, fed.ema5_)
                          THEN [fed EXCEPT !.first_candle_ = candle,
                                           !.first_candle_valid_ = TRUE]
                          ELSE fed]
       ELSE IF candle.low < fed.first_candle_.low
       THEN [signal |-> TRUE, strategy |-> [fed EXCEPT !.first_candle_valid_ = FALSE]]
       ELSE [signal |-> FALSE, strategy |-> fed]

\* processCandle: the signal and the strategy afterwards.
StrategyProcessCandle(st, candle) ==
    LET fed == [st EXCEPT !.ema3_ = EMAUpdate(@, candle.close),
                          !.ema5_ = EMAUpdate(@, candle.close)]
    IN IF ~fed.ema5_.initialized_ THEN [signal |-> FALSE, strategy |-> fed]
       ELSE IF ~fed.first_candle_valid_
       THEN LET gap_condition == GapCondition(fed, candle)
                ema_condition == GtEMA(candle.low, fed.ema5_)
            IN [signal |-> FALSE,
                strategy |-> IF gap_condition /\ ema_condition
                             THEN [fed EXCEPT !.first_candle_ = candle,
                                              !.first_candle_valid_ = TRUE]
                             ELSE fed]
       ELSE LET breakdown == candle.low < fed.first_candle_.low
            IN IF breakdown
               THEN [signal |-> TRUE, strategy |-> [fed EXCEPT !.first_candle_valid_ = FALSE]]
               ELSE [signal |-> FALSE, strategy |-> fed]

\* -------------------------------------------------------------- RiskManager
MAX_DAILY_TRADES == 2

RiskManager(capital) ==
    [initial_capital_ |-> capital, current_capital_ |-> capital, trades_today_ |-> 0,
     stop_loss_amount_ |-> DoubleMul(capital, STOP_LOSS_PCT),
     take_profit_amount_ |-> DoubleMul(capital, TAKE_PROFIT_PCT)]

\* static_cast<int> truncates toward zero.
TruncDiv(a, b) == IF a >= 0 THEN a \div b ELSE 0 - ((0 - a) \div b)

\* Mutant of calculatePositionSize: sized on the initial capital.
calculatePositionSizeInitial(rm, entry_price) ==
    IF entry_price <= 0 THEN 0 ELSE TruncDiv(rm.initial_capital_, entry_price)

calculatePositionSize(rm, entry_price) ==
    IF entry_price <= 0 THEN 0 ELSE TruncDiv(rm.current_capital_, entry_price)

\* Mutant of canTrade: the cap compared with <=.
canTradeOffByOne(rm) == rm.trades_today_ <= MAX_DAILY_TRADES

canTrade(rm) == rm.trades_today_ < MAX_DAILY_TRADES

recordTrade(rm) == [rm EXCEPT !.trades_today_ = @ + 1]

isStopLossHit(rm, unrealized_pnl) == LeNegDouble(unrealized_pnl, rm.stop_loss_amount_)

isTakeProfitHit(rm, unrealized_pnl) == GeDouble(unrealized_pnl, rm.take_profit_amount_)

\* Mutant of updateCapital: = in place of +=.
updateCapitalAssign(rm, pnl) == [rm EXCEPT !.current_capital_ = pnl]

updateCapital(rm, pnl) == [rm EXCEPT !.current_capital_ = @ + pnl]

\* ------------------------------------------------------------ TradingEngine
MARKET_CLOSE_TIME == T1500

Digit(ch) ==
    CASE ch = "0" -> 0 [] ch = "1" -> 1 [] ch = "2" -> 2 [] ch = "3" -> 3 [] ch = "4" -> 4
      [] ch = "5" -> 5 [] ch = "6" -> 6 [] ch = "7" -> 7 [] ch = "8" -> 8 [] ch = "9" -> 9

\* std::stoi of a two-digit substring.
Stoi2(s, from) == 10 * Digit(s[from]) + Digit(s[from + 1])

parseTimeToMinutes(time_str) == Stoi2(time_str, 1) * 60 + Stoi2(time_str, 4)

isPastMarketClose(current_time) ==
    parseTimeToMinutes(current_time) >= parseTimeToMinutes(MARKET_CLOSE_TIME)

\* ---------------------------------------------------------------- the state
VARIABLES
    market_data_,      \* previous_day_close, capital and first timestamp of the
                       \* MarketData
    strategy_,         \* TwoCandelPatternStrategy
    risk_manager_,     \* RiskManager
    position_,         \* Position
    trade_log_,        \* std::vector<Trade>
    session_active_,   \* bool
    pc,                \* where run() is: "start", "loop" or "done"
    fed_count,         \* candles the loop of run() has taken so far
    candle,            \* the candle of the latest iteration (candles.back() once
                       \* the list is exhausted)
    signal,            \* the local `signal` of the latest iteration
    console,           \* what logTrade, logExit and logMessage printed: one entry
                       \* per line, with the number of the candle it was printed at
    exit_status,       \* what main() returned: "none" until it returns, then "0" or "1"
    earlier,           \* the outcomes of the earlier runs of the program on this
                       \* market data
    ema_calc,          \* an EMACalculator on its own
    ema_prices         \* the prices ema_calc was given since construction or reset

vars == <<market_data_, strategy_, risk_manager_, position_, trade_log_,
          session_active_, pc, fed_count, candle, signal, console,
          exit_status, earlier, ema_calc, ema_prices>>

\* The state TradingEngine::run() has no access to.
outside_run == <<exit_status, earlier, ema_calc, ema_prices>>

\* The members the private methods of TradingEngine read and write, as one record.
Engine ==
    [risk_manager_ |-> risk_manager_, position_ |-> position_, trade_log_ |-> trade_log_,
     session_active_ |-> session_active_, console |-> console]

Line(kind, text, at) == [kind |-> kind, text |-> text, at |-> at]

logMessage(e, msg, at) == [e EXCEPT !.console = Append(@, Line("INFO", msg, at))]

logTrade(e, at) == [e EXCEPT !.console = Append(@, Line("TRADE EXECUTED", "", at))]

logExit(e, reason, at) == [e EXCEPT !.console = Append(@, Line("TRADE CLOSED", reason, at))]

\* Mutant of executeSellOrder: without the `position_.is_open` test.
executeSellOrderNoOpenTest(e, c, at) ==
    IF ~canTrade(e.risk_manager_)
    THEN logMessage(e, "Trade limit reached for the day", at)
    ELSE LET entry_price == c.close
             quantity == calculatePositionSize(e.risk_manager_, entry_price)
         IN IF quantity <= 0
            THEN logMessage(e, "Insufficient capital for position", at)
            ELSE logTrade(
                   [e EXCEPT !.position_ = PositionOpen("SELL", entry_price, quantity, c.timestamp),
                             !.risk_manager_ = recordTrade(@),
                             !.trade_log_ = Append(@, Trade(c.timestamp, "SELL", "ENTRY",
                                                            entry_price, quantity, 0))],
                   at)

\* Mutant of executeSellOrder: recordTrade is not called.
executeSellOrderNoRecord(e, c, at) ==
    IF ~canTrade(e.risk_manager_)
    THEN logMessage(e, "Trade limit reached for the day", at)
    ELSE IF e.position_.is_open
    THEN logMessage(e, "Position already open - skipping signal", at)
    ELSE LET entry_price == c.close
             quantity == calculatePositionSize(e.risk_manager_, entry_price)
         IN IF quantity <= 0
            THEN logMessage(e, "Insufficient capital for position", at)
            ELSE logTrade(
                   [e EXCEPT !.position_ = PositionOpen("SELL", entry_price, quantity, c.timestamp),
                             !.trade_log_ = Append(@, Trade(c.timestamp, "SELL", "ENTRY",
                                                            entry_price, quantity, 0))],
                   at)

\* Mutant of executeSellOrder: without the `quantity <= 0` test.
executeSellOrderNoQuantityTest(e, c, at) ==
    IF ~canTrade(e.risk_manager_)
    THEN logMessage(e, "Trade limit reached for the day", at)
    ELSE IF e.position_.is_open
    THEN logMessage(e, "Position already open - skipping signal", at)
    ELSE LET entry_price == c.close
             quantity == calculatePositionSize(e.risk_manager_, entry_price)
         IN logTrade(
                [e EXCEPT !.position_ = PositionOpen("SELL", entry_price, quantity, c.timestamp),
                          !.risk_manager_ = recordTrade(@),
                          !.trade_log_ = Append(@, Trade(c.timestamp, "SELL", "ENTRY",
                                                         entry_price, quantity, 0))],
                at)

\* Mutant of executeSellOrder: the entry price is the candle's open.
executeSellOrderAtOpen(e, c, at) ==
    IF ~canTrade(e.risk_manager_)
    THEN logMessage(e, "Trade limit reached for the day", at)
    ELSE IF e.position_.is_open
    THEN logMessage(e, "Position already open - skipping signal", at)
    ELSE LET entry_price == c.open
             quantity == calculatePositionSize(e.risk_manager_, entry_price)
         IN IF quantity <= 0
            THEN logMessage(e, "Insufficient capital for position", at)
            ELSE logTrade(
                   [e EXCEPT !.position_ = PositionOpen("SELL", entry_price, quantity, c.timestamp),
                             !.risk_manager_ = recordTrade(@),
                             !.trade_log_ = Append(@, Trade(c.timestamp, "SELL", "ENTRY",
                                                            entry_price, quantity, 0))],
                   at)

\* `at` is the number of the candle being processed; the code does not have it.
executeSellOrder(e, c, at) ==
    IF ~canTrade(e.risk_manager_)
    THEN logMessage(e, "Trade limit reached for the day", at)
    ELSE IF e.position_.is_open
    THEN logMessage(e, "Position already open - skipping signal", at)
    ELSE LET entry_price == c.close
             quantity == calculatePositionSize(e.risk_manager_, entry_price)
         IN IF quantity <= 0
            THEN logMessage(e, "Insufficient capital for position", at)
            ELSE logTrade(
                   [e EXCEPT !.position_ = PositionOpen("SELL", entry_price, quantity, c.timestamp),
                             !.risk_manager_ = recordTrade(@),
                             !.trade_log_ = Append(@, Trade(c.timestamp, "SELL", "ENTRY",
                                                            entry_price, quantity, 0))],
                   at)

\* Mutant of closePosition: the close is counted as a trade.
closePositionRecordsTrade(e, c, reason, at) ==
    IF ~e.position_.is_open THEN e
    ELSE LET exit_price == c.close
             pnl == getUnrealizedPnL(e.position_, exit_price)
         IN [logExit(e, reason, at) EXCEPT
                !.risk_manager_ = recordTrade(updateCapital(@, pnl)),
                !.trade_log_ = Append(@, Trade(c.timestamp, e.position_.side, "EXIT",
                                               exit_price, e.position_.quantity, pnl)),
                !.position_ = PositionClose(@)]

closePosition(e, c, reason, at) ==
    IF ~e.position_.is_open THEN e
    ELSE LET exit_price == c.close
             pnl == getUnrealizedPnL(e.position_, exit_price)
         IN [logExit(e, reason, at) EXCEPT
                !.risk_manager_ = updateCapital(@, pnl),
                !.trade_log_ = Append(@, Trade(c.timestamp, e.position_.side, "EXIT",
                                               exit_price, e.position_.quantity, pnl)),
                !.position_ = PositionClose(@)]

\* Mutant of checkExitConditions: the market-close test first.
checkExitConditionsTimeFirst(e, c, at) ==
    IF ~e.position_.is_open THEN e
    ELSE LET unrealized_pnl == getUnrealizedPnL(e.position_, c.close)
         IN IF isPastMarketClose(c.timestamp)
            THEN [closePosition(e, c, "Market Close (15:00)", at) EXCEPT
                     !.session_active_ = FALSE]
            ELSE IF isStopLossHit(e.risk_manager_, unrealized_pnl)
            THEN closePosition(e, c, "Stop Loss Hit", at)
            ELSE IF isTakeProfitHit(e.risk_manager_, unrealized_pnl)
            THEN closePosition(e, c, "Take Profit Hit", at)
            ELSE e

checkExitConditions(e, c, at) ==
    IF ~e.position_.is_open THEN e
    ELSE LET unrealized_pnl == getUnrealizedPnL(e.position_, c.close)
         IN IF isStopLossHit(e.risk_manager_, unrealized_pnl)
            THEN closePosition(e, c, "Stop Loss Hit", at)
            ELSE IF isTakeProfitHit(e.risk_manager_, unrealized_pnl)
            THEN closePosition(e, c, "Take Profit Hit", at)
            ELSE IF isPastMarketClose(c.timestamp)
            THEN [closePosition(e, c, "Market Close (15:00)", at) EXCEPT
                     !.session_active_ = FALSE]
            ELSE e

\* Mutant of the loop body: a signal of the iteration before is still pending.
LoopBodyPendingSignal(e, st, c, at) ==
    LET p == StrategyProcessCandle(st, c)
        x == checkExitConditions(e, c, at)
        y == IF (p.signal \/ signal) /\ x.session_active_
             THEN executeSellOrder(x, c, at) ELSE x
    IN [engine |-> y, strategy |-> p.strategy, signal |-> p.signal]

\* Mutant of the loop body: the entry before the exit conditions.
LoopBodyEntryFirst(e, st, c, at) ==
    LET p == StrategyProcessCandle(st, c)
        x == IF p.signal /\ e.session_active_ THEN executeSellOrder(e, c, at) ELSE e
        y == checkExitConditions(x, c, at)
    IN [engine |-> y, strategy |-> p.strategy, signal |-> p.signal]

\* One iteration of the loop of run() on candle c, from `if (!session_active_)
\* break` to the end of the body.
LoopBody(e, st, c, at) ==
    LET p == StrategyProcessCandle(st, c)
        x == checkExitConditions(e, c, at)
        y == IF p.signal /\ x.session_active_ THEN executeSellOrder(x, c, at) ELSE x
    IN [engine |-> y, strategy |-> p.strategy, signal |-> p.signal]

SetEngine(e) ==
    /\ risk_manager_' = e.risk_manager_
    /\ position_' = e.position_
    /\ trade_log_' = e.trade_log_
    /\ session_active_' = e.session_active_
    /\ console' = e.console

\* TradingEngine(data): the state after construction.
Init ==
    /\ market_data_ \in [previous_day_close : PrevCloses, capital : Capitals,
                         first_time : FirstTimes]
    /\ strategy_ = StrategyNew
    /\ risk_manager_ = RiskManager(market_data_.capital)
    /\ position_ = PositionDefault
    /\ trade_log_ = <<>>
    /\ session_active_ = TRUE
    /\ pc = "start"
    /\ fed_count = 0
    /\ candle = CandleDefault
    /\ signal = FALSE
    /\ console = <<>>
    /\ exit_status = "none"
    /\ earlier = <<>>
    /\ ema_calc = EMACalculator(5)
    /\ ema_prices = <<>>

\* run(), up to the loop.
RunStart ==
    /\ pc = "start"
    /\ strategy_' = StrategyInitialize(strategy_, market_data_.previous_day_close)
    /\ pc' = "loop"
    /\ UNCHANGED <<market_data_, risk_manager_, position_, trade_log_, session_active_,
                   fed_count, candle, signal, console, outside_run>>

\* The candle number n of the list, with bar b.
CandleAt(n, b) ==
    Candle(TimeString(parseTimeToMinutes(market_data_.first_time) + 5 * (n - 1)),
           b.open, b.low, b.close)

\* Mutant of the iteration: without `if (!session_active_) break`.
IterateNoBreak(b) ==
    /\ pc = "loop"
    /\ LET c == CandleAt(fed_count + 1, b)
           r == LoopBody(Engine, strategy_, c, fed_count + 1)
       IN /\ SetEngine(r.engine)
          /\ strategy_' = r.strategy
          /\ signal' = r.signal
          /\ candle' = c
    /\ fed_count' = fed_count + 1
    /\ UNCHANGED <<market_data_, pc, outside_run>>

\* run(), one iteration of the loop: the list has another candle, with bar b,
\* and the session is active.
Iterate(b) ==
    /\ pc = "loop"
    /\ session_active_
    /\ LET c == CandleAt(fed_count + 1, b)
           r == LoopBody(Engine, strategy_, c, fed_count + 1)
       IN /\ SetEngine(r.engine)
          /\ strategy_' = r.strategy
          /\ signal' = r.signal
          /\ candle' = c
    /\ fed_count' = fed_count + 1
    /\ UNCHANGED <<market_data_, pc, outside_run>>

\* Mutant of Finish: no forced close.
FinishNoForcedClose ==
    /\ pc = "loop"
    /\ pc' = "done"
    /\ UNCHANGED <<market_data_, strategy_, risk_manager_, position_, trade_log_,
                   session_active_, fed_count, candle, signal, console, outside_run>>

\* run(), after the loop (the list is exhausted, or the loop was left by the
\* break): force-close at candles.back(), then the summary.
Finish ==
    /\ pc = "loop"
    /\ SetEngine(IF position_.is_open /\ fed_count > 0
                 THEN closePosition(Engine, candle, "End of Market Data", fed_count)
                 ELSE Engine)
    /\ pc' = "done"
    /\ UNCHANGED <<market_data_, strategy_, fed_count, candle, signal, outside_run>>

ProcessCandle(b) == fed_count < MaxCandles /\ Iterate(b)

ProcessCandleLong(b) == fed_count < MaxLongCandles /\ Iterate(b)

Next ==
    \/ RunStart
    \/ \E b \in Bars : ProcessCandle(b)
    \/ Finish

Spec == Init /\ [][Next]_vars

\* Longer candle lists over fewer prices.
NextLong ==
    \/ RunStart
    \/ \E b \in LongBars : ProcessCandleLong(b)
    \/ Finish

SpecLong == Init /\ [][NextLong]_vars

\* -------------------------------------------------------------------- main()
\* main() after loadFromFile: the market data is whole, no engine exists yet.
\* The engine's variables hold the values of an engine over no capital until
\* the constructor overwrites them.
InitMain ==
    /\ market_data_ \in [previous_day_close : PrevCloses, capital : MainCapitals,
                         first_time : FirstTimes, candles : Sessions]
    /\ strategy_ = StrategyNew
    /\ risk_manager_ = RiskManager(0)
    /\ position_ = PositionDefault
    /\ trade_log_ = <<>>
    /\ session_active_ = TRUE
    /\ pc = "main"
    /\ fed_count = 0
    /\ candle = CandleDefault
    /\ signal = FALSE
    /\ console = <<>>
    /\ exit_status = "none"
    /\ earlier = <<>>
    /\ ema_calc = EMACalculator(5)
    /\ ema_prices = <<>>

\* Mutant of the validation of main(): a capital of 0 passes.
InvalidDataCapitalBelowZero(data) == data.candles = <<>> \/ data.capital < 0

\* The validation of main(): `candles.empty()` or `capital <= 0`.
InvalidData(data) == data.candles = <<>> \/ data.capital <= 0

\* Mutant of the construction: the trade log of the engine before is kept.
ConstructKeepsLog ==
    /\ strategy_' = StrategyNew
    /\ risk_manager_' = RiskManager(market_data_.capital)
    /\ position_' = PositionDefault
    /\ trade_log_' = trade_log_
    /\ session_active_' = TRUE
    /\ fed_count' = 0
    /\ candle' = CandleDefault
    /\ signal' = FALSE
    /\ console' = <<>>

\* `TradingEngine engine(data)` in simulateLiveDataFeed: every member is
\* constructed anew.
Construct ==
    /\ strategy_' = StrategyNew
    /\ risk_manager_' = RiskManager(market_data_.capital)
    /\ position_' = PositionDefault
    /\ trade_log_' = <<>>
    /\ session_active_' = TRUE
    /\ fed_count' = 0
    /\ candle' = CandleDefault
    /\ signal' = FALSE
    /\ console' = <<>>

\* main(), from the validation to the construction of the engine: `return 1`
\* on invalid data, else simulateLiveDataFeed constructs the engine.
Main ==
    /\ pc = "main"
    /\ IF InvalidData(market_data_)
       THEN /\ exit_status' = "1"
            /\ pc' = "exited"
            /\ UNCHANGED <<strategy_, risk_manager_, position_, trade_log_, session_active_,
                           fed_count, candle, signal, console>>
       ELSE /\ Construct
            /\ pc' = "start"
            /\ UNCHANGED exit_status
    /\ UNCHANGED <<market_data_, earlier, ema_calc, ema_prices>>

\* One iteration of the loop of run() on the next candle of the list.
NextCandle ==
    /\ fed_count < Len(market_data_.candles)
    /\ Iterate(market_data_.candles[fed_count + 1])

\* The loop of run() is left at the end of the list or by the break, and the
\* code after the loop runs.
RunEnd ==
    /\ fed_count = Len(market_data_.candles) \/ ~session_active_
    /\ Finish

\* main() after engine.run(): `return 0`.
MainReturn ==
    /\ pc = "done"
    /\ pc' = "exited"
    /\ exit_status' = "0"
    /\ UNCHANGED <<market_data_, strategy_, risk_manager_, position_, trade_log_,
                   session_active_, fed_count, candle, signal, console,
                   earlier, ema_calc, ema_prices>>

\* What a run of the program leaves behind: the exit status and, when run()
\* got to printSummary, the numbers and the trade log of the summary.
Outcome ==
    [exit_status |-> exit_status,
     summary |-> IF exit_status = "0"
                 THEN <<[total_trades |-> risk_manager_.trades_today_,
                         initial_capital |-> risk_manager_.initial_capital_,
                         final_capital |-> risk_manager_.current_capital_,
                         trade_log |-> trade_log_]>>
                 ELSE <<>>]

\* The program is run once more on the same market data.
Reinvoke ==
    /\ pc = "exited"
    /\ earlier = <<>>
    /\ earlier' = <<Outcome>>
    /\ pc' = "main"
    /\ exit_status' = "none"
    /\ UNCHANGED <<market_data_, strategy_, risk_manager_, position_, trade_log_,
                   session_active_, fed_count, candle, signal, console,
                   ema_calc, ema_prices>>

NextMain ==
    \/ Main
    \/ RunStart
    \/ NextCandle
    \/ RunEnd
    \/ MainReturn
    \/ Reinvoke

SpecMain == InitMain /\ [][NextMain]_vars

\* ------------------------------------------------- an EMACalculator on its own
InitEMA ==
    /\ market_data_ \in [previous_day_close : PrevCloses, capital : Capitals,
                         first_time : FirstTimes]
    /\ strategy_ = StrategyNew
    /\ risk_manager_ = RiskManager(market_data_.capital)
    /\ position_ = PositionDefault
    /\ trade_log_ = <<>>
    /\ session_active_ = TRUE
    /\ pc = "start"
    /\ fed_count = 0
    /\ candle = CandleDefault
    /\ signal = FALSE
    /\ console = <<>>
    /\ exit_status = "none"
    /\ earlier = <<>>
    /\ ema_calc \in {EMACalculator(period) : period \in EMAPeriods}
    /\ ema_prices = <<>>

\* ema_calc.update(price)
UpdateEMA(price) ==
    /\ Len(ema_prices) < MaxUpdates
    /\ ema_calc' = EMAUpdate(ema_calc, price)
    /\ ema_prices' = Append(ema_prices, price)
    /\ UNCHANGED <<market_data_, strategy_, risk_manager_, position_, trade_log_,
                   session_active_, pc, fed_count, candle, signal, console,
                   exit_status, earlier>>

\* ema_calc.reset()
ResetEMA ==
    /\ ema_calc' = EMAReset(ema_calc)
    /\ ema_prices' = <<>>
    /\ UNCHANGED <<market_data_, strategy_, risk_manager_, position_, trade_log_,
                   session_active_, pc, fed_count, candle, signal, console,
                   exit_status, earlier>>

NextEMA ==
    \/ \E price \in EMAPrices : UpdateEMA(price)
    \/ ResetEMA

SpecEMA == InitEMA /\ [][NextEMA]_vars

\* ------------------------------------------------------------------ helpers
Last(s) == s[Len(s)]

IsEntry(t) == t.type = "ENTRY"
IsExit(t) == t.type = "EXIT"

Count(log, P(_)) == Cardinality({i \in 1..Len(log) : P(log[i])})
EntryCount == Count(trade_log_, IsEntry)
ExitCount == Count(trade_log_, IsExit)

RECURSIVE SumPnL(_)
SumPnL(log) == IF log = <<>> THEN 0 ELSE Head(log).pnl + SumPnL(Tail(log))

\* The step is an iteration of the loop of run().
IsIteration == fed_count' = fed_count + 1
\* The step is the code of run() after the loop.
IsFinish == pc = "loop" /\ pc' = "done"

\* --------------------------------------------------------------------- C1
\* C1: the trade log strictly alternates ENTRY, EXIT, ENTRY, ... starting with
\* ENTRY; an EXIT closes the position of the ENTRY right before it (same side
\* and quantity), and the position is open exactly while the log ends with an
\* ENTRY, which then is the ENTRY of the open position.
C1_LogAlternates ==
    /\ \A i \in 1..Len(trade_log_) :
          IF i % 2 = 1 THEN IsEntry(trade_log_[i])
          ELSE /\ IsExit(trade_log_[i])
               /\ trade_log_[i].side = trade_log_[i - 1].side
               /\ trade_log_[i].quantity = trade_log_[i - 1].quantity
    /\ position_.is_open <=> Len(trade_log_) % 2 = 1
    /\ position_.is_open =>
          /\ Last(trade_log_).price = position_.entry_price
          /\ Last(trade_log_).quantity = position_.quantity
          /\ Last(trade_log_).timestamp = position_.entry_timestamp

\* Two positions were opened and closed.
C1_Witness == Len(trade_log_) = 4 /\ ~position_.is_open

\* --------------------------------------------------------------------- C2
\* C2: the trades-today counter and the number of ENTRY records never exceed
\* 2, and a step taken with the counter at 2 opens no position: it adds no
\* ENTRY, leaves the counter alone, and a position open after it is the one
\* that was open before it.
C2_DailyCap ==
    /\ [](risk_manager_.trades_today_ <= 2 /\ EntryCount <= 2)
    /\ [][risk_manager_.trades_today_ = 2 =>
             /\ Count(trade_log_', IsEntry) = EntryCount
             /\ risk_manager_'.trades_today_ = 2
             /\ position_'.is_open => position_' = position_]_vars

\* A signal arrived with the counter at 2 and was dropped.
C2_Witness ==
    /\ signal
    /\ risk_manager_.trades_today_ = 2
    /\ Len(console) > 0
    /\ Last(console) = Line("INFO", "Trade limit reached for the day", fed_count)

\* --------------------------------------------------------------------- C3
\* C3: when run() has finished no position is open and the log holds as many
\* EXIT as ENTRY records; the code after the loop, entered with a position
\* open, appends exactly one record: the EXIT of that position at the last
\* candle's close price and timestamp.
C3_FinishedFlat ==
    /\ [](pc = "done" => ~position_.is_open /\ ExitCount = EntryCount)
    /\ [][IsFinish /\ position_.is_open =>
             /\ fed_count > 0
             /\ trade_log_' =
                   Append(trade_log_,
                          Trade(candle.timestamp, position_.side, "EXIT", candle.close,
                                position_.quantity,
                                (position_.entry_price - candle.close) * position_.quantity))
             /\ ~position_'.is_open]_vars

\* run() finished by force-closing a position.
C3_Witness ==
    /\ pc = "done"
    /\ Len(console) > 0
    /\ Last(console) = Line("TRADE CLOSED", "End of Market Data", fed_count)

\* --------------------------------------------------------------------- C4
\* C4: current capital is initial capital plus the PnL of the EXIT records of
\* the log (ENTRY records carry PnL 0), initial capital is the capital of the
\* market data, and every close printed is one EXIT record.
C4_CapitalAccounting ==
    /\ risk_manager_.initial_capital_ = market_data_.capital
    /\ risk_manager_.current_capital_ = risk_manager_.initial_capital_ + SumPnL(trade_log_)
    /\ \A i \in 1..Len(trade_log_) : IsEntry(trade_log_[i]) => trade_log_[i].pnl = 0
    /\ ExitCount = Cardinality({i \in 1..Len(console) : console[i].kind = "TRADE CLOSED"})

\* Two positions were closed, the first at a loss, and run() has finished.
C4_Witness ==
    /\ pc = "done"
    /\ Len(trade_log_) = 4
    /\ trade_log_[2].pnl < 0
    /\ risk_manager_.current_capital_ < risk_manager_.initial_capital_

\* --------------------------------------------------------------------- C5
\* C5: every EXIT record's PnL is (entryPrice - exitPrice) * quantity with the
\* price and quantity of the ENTRY record before it, every ENTRY record's PnL
\* is 0, and a record stamped with the current candle's timestamp carries that
\* candle's close as its price.
C5_ExitPnL ==
    \A i \in 1..Len(trade_log_) :
        /\ IsEntry(trade_log_[i]) => trade_log_[i].pnl = 0
        /\ IsExit(trade_log_[i]) =>
              /\ i > 1
              /\ trade_log_[i].pnl =
                    (trade_log_[i - 1].price - trade_log_[i].price) * trade_log_[i - 1].quantity
        /\ trade_log_[i].timestamp = candle.timestamp => trade_log_[i].price = candle.close

\* A position was closed at a loss at the current candle.
C5_Witness ==
    /\ Len(trade_log_) >= 2
    /\ IsExit(Last(trade_log_))
    /\ Last(trade_log_).pnl < 0
    /\ Last(trade_log_).timestamp = candle.timestamp

\* --------------------------------------------------------------------- C6
SameCandleExits(i, j) ==
    /\ i < j
    /\ IsExit(trade_log_[i])
    /\ IsExit(trade_log_[j])
    /\ trade_log_[i].timestamp = trade_log_[j].timestamp

\* C6 as claimed: the final trade log holds at most one EXIT record per candle.
C6_OneExitPerCandle ==
    pc = "done" => \A i, j \in 1..Len(trade_log_) : ~SameCandleExits(i, j)

\* C6 as amended: the log holds at most one EXIT per candle, except that the
\* last candle can hold two once run() has finished: a stop-loss or
\* take-profit exit and, after the ENTRY the same candle's signal made, the
\* end-of-data close of that entry.  The exit rules never close twice at one
\* candle.
C6_OneRuleExitPerCandle ==
    /\ \A i, j \in 1..Len(trade_log_) :
          SameCandleExits(i, j) =>
             /\ j = i + 2
             /\ j = Len(trade_log_)
             /\ pc = "done"
             /\ trade_log_[j].timestamp = candle.timestamp
             /\ trade_log_[i + 1].timestamp = candle.timestamp
    /\ \A a, b \in 1..Len(console) :
          (/\ a < b
           /\ console[a].kind = "TRADE CLOSED"
           /\ console[b].kind = "TRADE CLOSED"
           /\ console[a].at = console[b].at) =>
             /\ console[a].text \in {"Stop Loss Hit", "Take Profit Hit"}
             /\ console[b].text = "End of Market Data"

\* The last candle closed one position, opened another, and run() closed that.
C6_Witness ==
    /\ pc = "done"
    /\ Len(trade_log_) = 4
    /\ SameCandleExits(2, 4)

\* --------------------------------------------------------------------- C7
\* The iteration appended the EXIT of the open position with this reason.
ClosedBy(reason) ==
    /\ Len(trade_log_') > Len(trade_log_)
    /\ trade_log_'[Len(trade_log_) + 1] =
          Trade(candle'.timestamp, position_.side, "EXIT", candle'.close, position_.quantity,
                getUnrealizedPnL(position_, candle'.close))
    /\ Len(console') > Len(console)
    /\ console'[Len(console) + 1] = Line("TRADE CLOSED", reason, fed_count')

\* C7: in an iteration entered with a position open, the rules are tried in
\* the order stop-loss, take-profit, time cutoff on the unrealized PnL at the
\* candle's close, and the first that matches closes the position; a stop-loss
\* or take-profit close leaves the session active, also at or after 15:00,
\* a time-cutoff close ends it, and with no rule matching the position and the
\* log stay as they were.  The session ends in no other way.
C7_ExitPriority ==
    [][/\ (IsIteration /\ position_.is_open) =>
            LET u == getUnrealizedPnL(position_, candle'.close)
            IN IF isStopLossHit(risk_manager_, u)
               THEN ClosedBy("Stop Loss Hit") /\ session_active_'
               ELSE IF isTakeProfitHit(risk_manager_, u)
               THEN ClosedBy("Take Profit Hit") /\ session_active_'
               ELSE IF isPastMarketClose(candle'.timestamp)
               THEN ClosedBy("Market Close (15:00)") /\ ~session_active_'
                    /\ trade_log_' = Append(trade_log_, Last(trade_log_'))
               ELSE /\ position_' = position_
                    /\ trade_log_' = trade_log_
                    /\ session_active_'
       /\ (session_active_ /\ ~session_active_') =>
            /\ IsIteration
            /\ position_.is_open
            /\ ClosedBy("Market Close (15:00)")]_vars

\* A stop-loss closed the position at a candle at or after 15:00 and the
\* session is still active.
C7_Witness ==
    /\ session_active_
    /\ fed_count > 0
    /\ isPastMarketClose(candle.timestamp)
    /\ \E i \in 1..Len(console) :
          console[i] = Line("TRADE CLOSED", "Stop Loss Hit", fed_count)

\* --------------------------------------------------------------------- C8
\* C8 as claimed: once a candle stamped at or after 15:00 has been processed
\* the session is ENDED, with or without a position open at that candle (so no
\* later candle is processed).
C8_EndsAtFirstPastClose ==
    (fed_count > 0 /\ isPastMarketClose(candle.timestamp)) => ~session_active_

\* --------------------------------------------------------------------- C9
\* C9 as claimed: on the unrealized PnL u of the open position at the current
\* candle's close, the stop-loss test is true exactly when u <= -0.02 * K and
\* the take-profit test exactly when u >= 0.07 * K, K the initial capital.
C9_ThresholdsInclusive ==
    position_.is_open =>
        LET u == getUnrealizedPnL(position_, candle.close)
            K == risk_manager_.initial_capital_
        IN /\ isStopLossHit(risk_manager_, u) <=> 100 * u <= 0 - 2 * K
           /\ isTakeProfitHit(risk_manager_, u) <=> 100 * u >= 7 * K

\* -------------------------------------------------------------------- C10
\* Entry prices the sizing is asked about.
ProbePrices == {0 - 1, 0, 1} \cup Closes

\* C10 as claimed: in every reachable risk state calculatePositionSize is
\* non-negative, is 0 for an entry price <= 0, and over the positive entry
\* prices (where it is computed from the capital) is non-increasing.
C10_PositionSize ==
    \A p \in ProbePrices :
        /\ calculatePositionSize(risk_manager_, p) >= 0
        /\ p <= 0 => calculatePositionSize(risk_manager_, p) = 0
        /\ \A q \in ProbePrices :
              (0 < p /\ p <= q) =>
                 calculatePositionSize(risk_manager_, p) >= calculatePositionSize(risk_manager_, q)

\* -------------------------------------------------------------------- C11
\* C11: processCandle returns a signal for a candle exactly when the detector
\* was armed (first_candle_valid_) before the candle and the candle's low is
\* below the anchor's low; on the signal the detector is back to seeking, so
\* the next signal needs a new anchor first.
C11_FiringRule ==
    [][IsIteration =>
          /\ signal' <=> (/\ strategy_.first_candle_valid_
                          /\ candle'.low < strategy_.first_candle_.low)
          /\ signal' => ~strategy_'.first_candle_valid_]_vars

\* A second signal fired, from a second anchor.
C11_Witness ==
    /\ signal
    /\ ~strategy_.first_candle_valid_
    /\ candle.low < strategy_.first_candle_.low
    /\ Len(trade_log_) >= 3
    /\ Last(trade_log_).timestamp = candle.timestamp

\* -------------------------------------------------------------------- C12
\* C12: while seeking, a candle becomes the anchor exactly when its open is at
\* least 1.03 times the previous day's close and its low is above the period-5
\* EMA taken after the candle's close was fed in (the close itself on the
\* seeding update, else close / 3 + 2 * ema / 3); the candle gives no signal,
\* and a candle failing either condition leaves the detector seeking.
C12_ArmingRule ==
    [][(IsIteration /\ ~strategy_.first_candle_valid_) =>
          LET c == candle'
              e == strategy_.ema5_
              gap == 100 * c.open >= 103 * market_data_.previous_day_close
              strength == IF e.initialized_
                          THEN 3 * c.low * e.ema_.den > c.close * e.ema_.den + 2 * e.ema_.num
                          ELSE c.low > c.close
          IN /\ ~signal'
             /\ strategy_'.first_candle_valid_ <=> (gap /\ strength)
             /\ strategy_'.first_candle_valid_ => strategy_'.first_candle_ = c]_vars

\* A candle after the first armed the detector with its open exactly at the
\* gap level.
C12_Witness ==
    /\ fed_count >= 2
    /\ strategy_.first_candle_valid_
    /\ strategy_.first_candle_ = candle
    /\ 100 * candle.open = 103 * market_data_.previous_day_close

\* -------------------------------------------------------------------- C13
\* C13: while armed, a candle whose low is not below the anchor's low leaves
\* the detector armed with the identical anchor, also when that candle meets
\* the gap and strength conditions itself; the anchor is dropped only by a
\* breakdown signal (or by initialize at the start of the session).
C13_AnchorKept ==
    [][/\ (/\ IsIteration
           /\ strategy_.first_candle_valid_
           /\ ~(candle'.low < strategy_.first_candle_.low)) =>
             /\ strategy_'.first_candle_valid_
             /\ strategy_'.first_candle_ = strategy_.first_candle_
       /\ (strategy_.first_candle_valid_ /\ ~strategy_'.first_candle_valid_) =>
             (IsIteration /\ signal') \/ pc = "start"]_vars

\* The detector is armed on an earlier candle and the current candle meets the
\* gap and strength conditions.
C13_Witness ==
    /\ fed_count >= 2
    /\ strategy_.first_candle_valid_
    /\ strategy_.first_candle_.timestamp # candle.timestamp
    /\ GapCondition(strategy_, candle)
    /\ GtEMA(candle.low, strategy_.ema5_)

C15_ValidationRefuses ==
    (market_data_.candles = <<>> \/ market_data_.capital <= 0) =>
        /\ pc \in {"main", "exited"}
        /\ fed_count = 0
        /\ trade_log_ = <<>>
        /\ console = <<>>
        /\ exit_status # "0"
        /\ pc = "exited" => exit_status = "1"

\* The program ended on a candle list with a capital of 0.
C15_Witness ==
    /\ pc = "exited"
    /\ exit_status = "1"
    /\ market_data_.capital = 0
    /\ market_data_.candles # <<>>

\* -------------------------------------------------------------------- C16
\* A 3-candle list before 15:00 with a capital of at least candle 2's close:
\* candle 1 arms the detector (gap, and low above the EMA seeded with its
\* close), candle 2's low is below candle 1's, candle 3 closes at candle 2's
\* close.
ThreeCandleScenario ==
    LET cs == market_data_.candles
    IN /\ Len(cs) = 3
       /\ parseTimeToMinutes(market_data_.first_time) + 10 < parseTimeToMinutes(T1500)
       /\ market_data_.capital >= cs[2].close
       /\ 100 * cs[1].open >= 103 * market_data_.previous_day_close
       /\ cs[1].low > cs[1].close
       /\ cs[2].low < cs[1].low
       /\ cs[3].close = cs[2].close

\* The log is one SELL ENTRY at candle 2's close and its EXIT, and the capital
\* moved by that EXIT's PnL.
OneEntryOneExit ==
    /\ Len(trade_log_) = 2
    /\ IsEntry(trade_log_[1])
    /\ trade_log_[1].side = "SELL"
    /\ trade_log_[1].price = market_data_.candles[2].close
    /\ IsExit(trade_log_[2])
    /\ trade_log_[2].pnl =
          (trade_log_[1].price - trade_log_[2].price) * trade_log_[1].quantity
    /\ risk_manager_.current_capital_ = market_data_.capital + trade_log_[2].pnl

\* C16 as claimed: the program run on the 3-candle scenario ends with exactly
\* one ENTRY (SELL, at candle 2's close) followed by one EXIT, the EXIT's PnL
\* (entryPrice - exitPrice) * quantity, and final capital = initial capital +
\* that PnL.
C16_EndToEnd ==
    (pc \in {"done", "exited"} /\ ThreeCandleScenario) => OneEntryOneExit

\* C16 as amended: the same, for a scenario whose candle 2 closes above 0.
C16_EndToEndPositiveClose ==
    (/\ pc \in {"done", "exited"}
     /\ ThreeCandleScenario
     /\ market_data_.candles[2].close > 0) => OneEntryOneExit

\* run() finished the scenario with a positive close of candle 2.
C16_Witness ==
    /\ pc = "done"
    /\ ThreeCandleScenario
    /\ market_data_.candles[2].close > 0
    /\ Len(trade_log_) = 2

\* -------------------------------------------------------------------- C17
\* The value of ema_calc equals the integer x.
EMAValueIs(x) == ema_calc.ema_.num = x * ema_calc.ema_.den

\* C17: a fresh or reset calculator is not ready; after the first update(x) it
\* is ready with value x, for every period; it stays ready through every later
\* update, each of which sets the value to price * alpha + value * (1 - alpha),
\* alpha = 2 / (period + 1); period 3 on 10, 12, 11 gives 10, 11, 11.
C17_EMASeedAndFormula ==
    /\ [](/\ ema_calc.initialized_ <=> ema_prices # <<>>
          /\ Len(ema_prices) = 1 => EMAValueIs(ema_prices[1])
          /\ ema_calc.period_ = 3 =>
                /\ ema_prices = <<10>> => EMAValueIs(10)
                /\ ema_prices = <<10, 12>> => EMAValueIs(11)
                /\ ema_prices = <<10, 12, 11>> => EMAValueIs(11))
    /\ [][(ema_prices # <<>> /\ Len(ema_prices') = Len(ema_prices) + 1) =>
             LET price == Last(ema_prices')
                 n == ema_calc.period_
                 v == ema_calc.ema_
                 w == ema_calc'.ema_
             IN /\ ema_calc'.initialized_
                \* w = price * 2/(n+1) + v * (n-1)/(n+1)
                /\ w.num * (n + 1) * v.den = w.den * (2 * price * v.den + (n - 1) * v.num)]_vars

\* A calculator of period 3 was reset and then given 10, 12, 11.
C17_Witness ==
    /\ ema_calc.period_ = 3
    /\ ema_prices = <<10, 12, 11>>
    /\ EMAValueIs(11)

\* -------------------------------------------------------------------- C18
\* The iteration closed the position that was open before it.
ExitedInStep ==
    /\ Len(trade_log_') > Len(trade_log_)
    /\ IsExit(trade_log_'[Len(trade_log_) + 1])

\* After the exit evaluation of the iteration's candle: a signal is present,
\* the session is active, the trade cap is not reached, no position is open.
EntryConditions ==
    /\ IsIteration
    /\ signal'
    /\ session_active_'
    /\ risk_manager_.trades_today_ < 2
    /\ ~position_.is_open \/ ExitedInStep

\* The iteration opened a SELL position at its candle, appended exactly one
\* ENTRY record, the last of the log, and incremented the trade count.
EntryMade ==
    /\ position_'.is_open
    /\ position_'.side = "SELL"
    /\ position_'.entry_timestamp = candle'.timestamp
    /\ Count(trade_log_', IsEntry) = EntryCount + 1
    /\ IsEntry(Last(trade_log_'))
    /\ Last(trade_log_').timestamp = candle'.timestamp
    /\ risk_manager_'.trades_today_ = risk_manager_.trades_today_ + 1

\* C18 as claimed: whenever, after the exit evaluation of a candle, a signal is
\* present, the session is ACTIVE, canTrade() is true and no position is open,
\* a SELL position is opened at that candle, exactly one ENTRY record is
\* appended and the trade count is incremented.
C18_EntryRule == [][EntryConditions => EntryMade]_vars

\* C18 as amended: the same, when in addition the candle's close is positive
\* and the capital after the exit evaluation is at least that close (so that
\* the position size is positive).
C18_EntryRuleSized ==
    [][(/\ EntryConditions
        /\ candle'.close > 0
        /\ risk_manager_'.current_capital_ >= candle'.close) => EntryMade]_vars

\* A position was closed and the next opened at the same candle.
C18_Witness ==
    /\ Len(trade_log_) >= 3
    /\ position_.is_open
    /\ signal
    /\ IsExit(trade_log_[Len(trade_log_) - 1])
    /\ trade_log_[Len(trade_log_) - 1].timestamp = candle.timestamp
    /\ Last(trade_log_).timestamp = candle.timestamp
    /\ risk_manager_.trades_today_ = 2

\* -------------------------------------------------------------------- C19
\* C19: an open position has quantity > 0 and side SELL, a closed position has
\* quantity 0 and entry price 0, and a step that opens a position (appends an
\* ENTRY) starts with no position open or closes the open one first.
C19_PositionInvariant ==
    /\ [](IF position_.is_open
          THEN position_.quantity > 0 /\ position_.side = "SELL"
          ELSE position_.quantity = 0 /\ position_.entry_price = 0)
    /\ [][Count(trade_log_', IsEntry) > EntryCount =>
             ~position_.is_open \/ ExitedInStep]_vars

\* A signal arrived with no position open and less capital than the candle's
\* close: no position was opened.
C19_Witness ==
    /\ signal
    /\ ~position_.is_open
    /\ session_active_
    /\ risk_manager_.trades_today_ < 2
    /\ risk_manager_.current_capital_ < candle.close
    /\ position_.quantity = 0

\* -------------------------------------------------------------------- C20
\* C20: every ENTRY record's quantity is floor(currentCapital / price), where
\* currentCapital is the initial capital plus the PnL of the records logged
\* before it, an exit at the same candle included; and an ENTRY is appended
\* with the close and the timestamp of the iteration's candle.
C20_EntryPriceAndSize ==
    /\ [](\A i \in 1..Len(trade_log_) :
             IsEntry(trade_log_[i]) =>
                /\ trade_log_[i].price > 0
                /\ trade_log_[i].quantity =
                      (market_data_.capital + SumPnL(SubSeq(trade_log_, 1, i - 1)))
                          \div trade_log_[i].price)
    /\ [][Count(trade_log_', IsEntry) > EntryCount =>
             /\ IsIteration
             /\ Last(trade_log_').price = candle'.close
             /\ Last(trade_log_').timestamp = candle'.timestamp]_vars

\* The second ENTRY was made at the candle of the first EXIT, sized on a capital
\* that EXIT had changed.
C20_Witness ==
    /\ Len(trade_log_) >= 3
    /\ IsEntry(trade_log_[3])
    /\ trade_log_[3].timestamp = trade_log_[2].timestamp
    /\ trade_log_[2].pnl # 0
    /\ trade_log_[3].quantity # market_data_.capital \div trade_log_[3].price

\* -------------------------------------------------------------------- C21
\* The iteration's signal found a position still open after the exit
\* evaluation, or the daily cap reached.
DroppedSignal ==
    /\ IsIteration
    /\ signal'
    /\ (position_.is_open /\ ~ExitedInStep) \/ risk_manager_.trades_today_ >= 2

\* C21: a signal whose entry guards fail (position open, or cap reached) opens
\* nothing: no ENTRY is appended and the trade count stays; beyond what the
\* exit evaluation of the same candle did (one EXIT and its PnL), position,
\* capital and log are as before; the detector is back to seeking.  Nothing is
\* queued: an ENTRY is only ever appended in an iteration whose own candle
\* broke below the anchor of an armed detector.
C21_DroppedNotQueued ==
    [][/\ DroppedSignal =>
             /\ Count(trade_log_', IsEntry) = EntryCount
             /\ risk_manager_'.trades_today_ = risk_manager_.trades_today_
             /\ ~strategy_'.first_candle_valid_
             /\ IF ExitedInStep
                THEN /\ trade_log_' = Append(trade_log_, Last(trade_log_'))
                     /\ ~position_'.is_open
                     /\ risk_manager_'.current_capital_ =
                           risk_manager_.current_capital_ + Last(trade_log_').pnl
                ELSE /\ trade_log_' = trade_log_
                     /\ position_' = position_
                     /\ risk_manager_' = risk_manager_
       /\ Count(trade_log_', IsEntry) > EntryCount =>
             /\ IsIteration
             /\ signal'
             /\ strategy_.first_candle_valid_
             /\ candle'.low < strategy_.first_candle_.low]_vars

\* A signal was dropped because the position was still open.
C21_Witness ==
    /\ signal
    /\ position_.is_open
    /\ ~strategy_.first_candle_valid_
    /\ Len(console) > 0
    /\ Last(console) = Line("INFO", "Position already open - skipping signal", fed_count)

\* -------------------------------------------------------------------- C22
\* C22: a time-cutoff close ends the session and the iteration that ends it
\* appends that EXIT and nothing else (a signal at that candle opens nothing);
\* from then on no candle is processed: trade log, risk state, position,
\* detector and EMAs stay as they are, with no position left to close.
C22_EndedAbsorbing ==
    /\ [](~session_active_ => ~position_.is_open)
    /\ [][/\ ClosedBy("Market Close (15:00)") => ~session_active_'
          /\ (session_active_ /\ ~session_active_') =>
                /\ trade_log_' = Append(trade_log_, Last(trade_log_'))
                /\ IsExit(Last(trade_log_'))
                /\ risk_manager_'.trades_today_ = risk_manager_.trades_today_
          /\ ~session_active_ =>
                UNCHANGED <<trade_log_, risk_manager_, position_, strategy_,
                            session_active_, fed_count, candle, console>>]_vars

\* The time cutoff closed the position at a candle that also gave a signal, and
\* run() finished.
C22_Witness ==
    /\ pc = "done"
    /\ ~session_active_
    /\ signal
    /\ Len(console) > 0
    /\ Last(console) = Line("TRADE CLOSED", "Market Close (15:00)", fed_count)

\* -------------------------------------------------------------------- C23
\* C23 as claimed: no ENTRY record is stamped at or after 15:00.
C23_NoEntryPastClose ==
    \A i \in 1..Len(trade_log_) :
        IsEntry(trade_log_[i]) => ~isPastMarketClose(trade_log_[i].timestamp)

C25_CounterIsEntryCount == risk_manager_.trades_today_ = EntryCount

\* A position was opened and closed, and a later signal was dropped for a
\* position size <= 0.
C25_Witness ==
    /\ risk_manager_.trades_today_ = 1
    /\ ExitCount = 1
    /\ Len(console) > 0
    /\ Last(console) = Line("INFO", "Insufficient capital for position", fed_count)

\* -------------------------------------------------------------------- C26
\* C26: an EXIT stamped at the candle of its ENTRY is the end-of-data close of
\* an entry made at the last candle, with PnL 0; the stop-loss, take-profit
\* and time-cutoff rules never close at the candle that opened the position.
C26_ExitBeforeEntry ==
    /\ \A j \in 2..Len(trade_log_) :
          (IsExit(trade_log_[j]) /\ trade_log_[j].timestamp = trade_log_[j - 1].timestamp) =>
             /\ pc = "done"
             /\ j = Len(trade_log_)
             /\ trade_log_[j].timestamp = candle.timestamp
             /\ trade_log_[j].pnl = 0
             /\ Last(console) = Line("TRADE CLOSED", "End of Market Data", fed_count)
    /\ \A a, b \in 1..Len(console) :
          (/\ a < b
           /\ console[a].kind = "TRADE EXECUTED"
           /\ console[b].kind = "TRADE CLOSED"
           /\ console[a].at = console[b].at) => console[b].text = "End of Market Data"

\* The only position of the run was opened at the last candle and closed at the
\* end of the data.
C26_Witness ==
    /\ pc = "done"
    /\ Len(trade_log_) = 2
    /\ trade_log_[2].timestamp = trade_log_[1].timestamp
    /\ trade_log_[2].pnl = 0

====
